---- MODULE Spec2Model ----
(***************************************************************************)
(* A model of the kilo text editor (src/kilo.c, the editing build at lines *)
(* 49-770): the key decoder editorReadKey, the row operations, the         *)
(* viewport editorScroll, the file functions editorOpen and editorSave,    *)
(* the terminal mode functions and the dispatch loop of main.              *)
(*                                                                         *)
(* Bytes are their ASCII codes, strings are sequences of bytes, and the    *)
(* C arrays E.row, chars and render are 1-based sequences here, so that    *)
(* E.row[E.cy] of the source is E.row[E.cy + 1] of the model.              *)
(***************************************************************************)
EXTENDS Integers, Sequences, FiniteSets, TLC

VARIABLES
    E,      \* struct editorConfig E
    stdin,  \* bytes the terminal has delivered and no read() has taken yet
    pc,     \* where main's loop stands
    c,      \* the local c of editorProcessKeypress: the key just decoded
    rk,     \* the locals of one editorReadKey call, read by read
    disk,   \* the file system: what each file holds, and the files opened for writing
    term,   \* the terminal's attributes and the process's exit state
    ab      \* struct abuf ab of editorRefreshScreen, empty outside that function

vars == <<E, stdin, pc, c, rk, disk, term, ab>>

---------------------------------------------------------------------------
\* Bounds of the model.

\* The most raw characters the buffer may hold for an insert to be explored.
MaxChars == 2
\* The screen sizes explored: screenrows in 1..MaxScreenRows, likewise columns.
MaxScreenRows == 2
MaxScreenCols == 2
\* The longest line drawn for the row functions taken alone: long enough for
\* a tab at rendered column 7, which expands to a single space.
MaxLine == 8
\* The longest file text drawn for editorOpen and editorSave taken alone.
MaxText == 4
\* The widest screen and the most rows drawn for the status bar taken alone.
MaxBarCols == 36
MaxBarRows == 11

---------------------------------------------------------------------------
\* Program constants.

KILO_TAB_STOP == 8

BACKSPACE == 127
ARROW_LEFT == 1000
ARROW_RIGHT == 1001
ARROW_UP == 1002
ARROW_DOWN == 1003
DEL_KEY == 1004
HOME_KEY == 1005
END_KEY == 1006
PAGE_UP == 1007
PAGE_DOWN == 1008

\* '\x1b', '\t', ' ', '\n', '\r'
ESC == 27
TAB == 9
SPACE == 32
NL == 10
CR == 13
\* '[', 'O', '~', '0', '9'
LBRACKET == 91
CHAR_O == 79
TILDE == 126
DIGIT_0 == 48
DIGIT_9 == 57
\* 'A', 'B', 'C', 'D', 'F', 'H'
CHAR_A == 65
CHAR_B == 66
CHAR_C == 67
CHAR_D == 68
CHAR_F == 70
CHAR_H == 72
\* Bytes of the input the source does not name: 'a', '5', ';'
CHAR_a == CHAR_A + 32
DIGIT_5 == DIGIT_0 + 5
SEMICOLON == DIGIT_9 + 2

\* #define CTRL_KEY(k) ((k)&0x1f)
CTRL_KEY(k) == k % 32

CTRL_Q == CTRL_KEY(113)
CTRL_S == CTRL_KEY(115)
CTRL_H == CTRL_KEY(104)
CTRL_L == CTRL_KEY(108)

\* E.filename == NULL
NULL == "NULL"

---------------------------------------------------------------------------
\* Row operations.

\* One iteration of the loop of editorRowCxToRx: the rendered column after
\* the character ch, met at rendered column rx.
CxToRxStepNoMinusOne(rx, ch) ==
    (IF ch = TAB THEN rx + KILO_TAB_STOP - (rx % KILO_TAB_STOP) ELSE rx) + 1

CxToRxStep(rx, ch) ==
    (IF ch = TAB THEN rx + (KILO_TAB_STOP - 1) - (rx % KILO_TAB_STOP) ELSE rx) + 1

RECURSIVE CxToRxLoop(_, _, _, _)
CxToRxLoop(chars, cx, j, rx) ==
    IF j < cx THEN CxToRxLoop(chars, cx, j + 1, CxToRxStep(rx, chars[j + 1]))
    ELSE rx

\* int editorRowCxToRx(erow *row, int cx)
editorRowCxToRx(row, cx) == CxToRxLoop(row.chars, cx, 0, 0)

\* The inner loop of editorUpdateRow at a tab: spaces until idx is a tab stop.
RECURSIVE PadToTabStop(_)
PadToTabStop(render) ==
    IF Len(render) % KILO_TAB_STOP # 0 THEN PadToTabStop(Append(render, SPACE))
    ELSE render

\* One iteration of the second loop of editorUpdateRow, without the first
\* space of a tab.
UpdateRowStepNoFirstSpace(render, ch) ==
    IF ch = TAB THEN PadToTabStop(render) ELSE Append(render, ch)

\* One iteration of the second loop of editorUpdateRow, without the loop
\* that pads a tab to the tab stop.
UpdateRowStepTabOneSpace(render, ch) ==
    Append(render, IF ch = TAB THEN SPACE ELSE ch)

\* One iteration of the second loop of editorUpdateRow: render after chars[j].
UpdateRowStep(render, ch) ==
    IF ch = TAB THEN PadToTabStop(Append(render, SPACE)) ELSE Append(render, ch)

RECURSIVE UpdateRowLoop(_, _, _)
UpdateRowLoop(row, j, render) ==
    IF j < row.size THEN UpdateRowLoop(row, j + 1, UpdateRowStep(render, row.chars[j + 1]))
    ELSE render

\* void editorUpdateRow(erow *row)
editorUpdateRow(row) ==
    LET render == UpdateRowLoop(row, 0, <<>>)
    IN  [row EXCEPT !.render = render, !.rsize = Len(render)]

\* void editorAppendRow(char *s, size_t len)
editorAppendRow(e, s) ==
    LET new == [size |-> Len(s), rsize |-> 0, chars |-> s, render |-> <<>>]
    IN  [e EXCEPT !.row = Append(e.row, editorUpdateRow(new)),
                  !.numrows = e.numrows + 1]

\* editorRowInsertChar that leaves the rendered form as it was.
RowInsertCharNoUpdate(row, at, ch) ==
    LET a == IF at < 0 \/ at > row.size THEN row.size ELSE at
    IN  [row EXCEPT !.chars = SubSeq(row.chars, 1, a) \o <<ch>>
                                  \o SubSeq(row.chars, a + 1, row.size),
                    !.size = row.size + 1]

\* void editorRowInsertChar(erow *row, int at, int c)
editorRowInsertChar(row, at, ch) ==
    LET a == IF at < 0 \/ at > row.size THEN row.size ELSE at
    IN  editorUpdateRow([row EXCEPT !.chars = SubSeq(row.chars, 1, a) \o <<ch>>
                                                  \o SubSeq(row.chars, a + 1, row.size),
                                    !.size = row.size + 1])

\* editorInsertChar without E.cx++.
InsertCharNoAdvance(e, ch) ==
    LET e1 == IF e.cy = e.numrows THEN editorAppendRow(e, <<>>) ELSE e
    IN  [e1 EXCEPT !.row[e1.cy + 1] = editorRowInsertChar(e1.row[e1.cy + 1], e1.cx, ch)]

\* editorInsertChar that appends a row wherever the cursor is.
InsertCharAlwaysNewRow(e, ch) ==
    LET e1 == editorAppendRow(e, <<>>)
    IN  [e1 EXCEPT !.row[e1.cy + 1] = editorRowInsertChar(e1.row[e1.cy + 1], e1.cx, ch),
                   !.cx = e1.cx + 1]

\* void editorInsertChar(int c)
editorInsertChar(e, ch) ==
    LET e1 == IF e.cy = e.numrows THEN editorAppendRow(e, <<>>) ELSE e
    IN  [e1 EXCEPT !.row[e1.cy + 1] = editorRowInsertChar(e1.row[e1.cy + 1], e1.cx, ch),
                   !.cx = e1.cx + 1]

---------------------------------------------------------------------------
\* The key decoder.  A read() result is the sequence of the bytes it stored:
\* <<b>> when it returned 1, <<>> when it returned 0 (VMIN = 0, VTIME = 1: the
\* read timed out).

IsDigit(b) == b >= DIGIT_0 /\ b <= DIGIT_9

\* The switch on seq[1] after ESC [ <digit> ~, with a case that is not there.
DecodeTildeExtraDel(d) ==
    CASE d = DIGIT_0 + 1 -> HOME_KEY
      [] d = DIGIT_0 + 2 -> DEL_KEY
      [] d = DIGIT_0 + 3 -> DEL_KEY
      [] d = DIGIT_0 + 4 -> END_KEY
      [] d = DIGIT_0 + 5 -> PAGE_UP
      [] d = DIGIT_0 + 6 -> PAGE_DOWN
      [] d = DIGIT_0 + 7 -> HOME_KEY
      [] d = DIGIT_0 + 8 -> END_KEY
      [] OTHER -> ESC

\* The switch on seq[1] after ESC [ <digit> ~, with cases '7' and '8' left out.
DecodeTildeNoSevenEight(d) ==
    CASE d = DIGIT_0 + 1 -> HOME_KEY
      [] d = DIGIT_0 + 3 -> DEL_KEY
      [] d = DIGIT_0 + 4 -> END_KEY
      [] d = DIGIT_0 + 5 -> PAGE_UP
      [] d = DIGIT_0 + 6 -> PAGE_DOWN
      [] OTHER -> ESC

\* The switch on seq[1] after ESC [ <digit> ~; no case matching falls through
\* to the return '\x1b' that ends the escape branch.
DecodeTilde(d) ==
    CASE d = DIGIT_0 + 1 -> HOME_KEY
      [] d = DIGIT_0 + 3 -> DEL_KEY
      [] d = DIGIT_0 + 4 -> END_KEY
      [] d = DIGIT_0 + 5 -> PAGE_UP
      [] d = DIGIT_0 + 6 -> PAGE_DOWN
      [] d = DIGIT_0 + 7 -> HOME_KEY
      [] d = DIGIT_0 + 8 -> END_KEY
      [] OTHER -> ESC

\* The switch on seq[1] after ESC [, with right and left exchanged.
DecodeCSISwapped(b) ==
    CASE b = CHAR_A -> ARROW_UP
      [] b = CHAR_B -> ARROW_DOWN
      [] b = CHAR_C -> ARROW_LEFT
      [] b = CHAR_D -> ARROW_RIGHT
      [] b = CHAR_H -> HOME_KEY
      [] b = CHAR_F -> END_KEY
      [] OTHER -> ESC

\* The switch on seq[1] after ESC [ when seq[1] is no digit.
DecodeCSI(b) ==
    CASE b = CHAR_A -> ARROW_UP
      [] b = CHAR_B -> ARROW_DOWN
      [] b = CHAR_C -> ARROW_RIGHT
      [] b = CHAR_D -> ARROW_LEFT
      [] b = CHAR_H -> HOME_KEY
      [] b = CHAR_F -> END_KEY
      [] OTHER -> ESC

\* The switch on seq[1] after ESC O.
DecodeSS3(b) ==
    CASE b = CHAR_H -> HOME_KEY
      [] b = CHAR_F -> END_KEY
      [] OTHER -> ESC

\* The locals of editorReadKey as the call begins: at is the read() the call
\* stands before ("c", "seq0", "seq1", "seq2") or "ret" once it has returned
\* key; seq holds the bytes stored in seq[] so far.
ReadKeyStart == [at |-> "c", c |-> 0, seq |-> <<>>, key |-> 0]

Return(st, k) == [st EXCEPT !.at = "ret", !.key = k]

\* A read() behind the escape byte that stored nothing, taken as if the
\* escape byte had not come: the call waits for a key again.
EscTimeoutDropped(st) == ReadKeyStart

\* if (read(STDIN_FILENO, &seq[i], 1) != 1) return '\x1b';
EscTimeout(st) == Return(st, ESC)

\* editorReadKey from one read() to the next (or to its return), r being what
\* the read stored.
ReadKeyStep(st, r) ==
    CASE st.at = "c" ->
            IF Len(r) # 1 THEN st
            ELSE IF r[1] = ESC THEN [st EXCEPT !.at = "seq0", !.c = r[1]]
            ELSE Return([st EXCEPT !.c = r[1]], r[1])
      [] st.at = "seq0" ->
            IF Len(r) # 1 THEN EscTimeout(st)
            ELSE [st EXCEPT !.at = "seq1", !.seq = <<r[1]>>]
      [] st.at = "seq1" ->
            IF Len(r) # 1 THEN EscTimeout(st)
            ELSE LET s == [st EXCEPT !.seq = Append(st.seq, r[1])]
                 IN  IF s.seq[1] = LBRACKET
                     THEN IF IsDigit(s.seq[2]) THEN [s EXCEPT !.at = "seq2"]
                          ELSE Return(s, DecodeCSI(s.seq[2]))
                     ELSE IF s.seq[1] = CHAR_O THEN Return(s, DecodeSS3(s.seq[2]))
                     ELSE Return(s, ESC)
      [] st.at = "seq2" ->
            IF Len(r) # 1 THEN EscTimeout(st)
            ELSE LET s == [st EXCEPT !.seq = Append(st.seq, r[1])]
                 IN  IF s.seq[3] = TILDE THEN Return(s, DecodeTilde(s.seq[2]))
                     ELSE Return(s, ESC)
      [] OTHER -> st

\* The bytes a call has taken from the terminal.
Consumed(st) == IF st.at = "c" THEN <<>> ELSE <<st.c>> \o st.seq

\* editorReadKey run to its return on the pending bytes buf: read i stores
\* buf[i], and a read past the end of buf times out.
RECURSIVE ReadKeyRun(_, _, _)
ReadKeyRun(st, buf, i) ==
    IF st.at = "ret" THEN st
    ELSE ReadKeyRun(ReadKeyStep(st, IF i <= Len(buf) THEN <<buf[i]>> ELSE <<>>), buf, i + 1)

\* int editorReadKey(), the terminal holding buf (not empty).
editorReadKey(buf) == ReadKeyRun(ReadKeyStart, buf, 1)

\* The values errno may hold after a read() that returned -1.
Errnos == {"EAGAIN", "EINTR", "EIO"}

\* The locals of a call that records, besides, what the last read() of the
\* first loop returned (nread) and the errno it left.
WaitStart ==
    [at |-> "c", c |-> 0, seq |-> <<>>, key |-> 0, nread |-> 0, errno |-> "none"]

\* The first loop with the test of errno left out: every -1 is fatal.
ReadWaitDieOnAny(st, nread, errno, b) ==
    LET s == [st EXCEPT !.nread = nread,
                        !.errno = IF nread = 0 - 1 THEN errno ELSE st.errno]
    IN  IF nread = 1 THEN ReadKeyStep(s, <<b>>)
        ELSE IF nread = 0 - 1 THEN [s EXCEPT !.at = "die"]
        ELSE s

\* while ((nread = read(STDIN_FILENO, &c, 1)) != 1)
\*     if (nread == -1 && errno != EAGAIN) die("read");
\* One read() of the loop: it returned nread, left errno when it returned -1
\* and stored b when it returned 1.  "die" is the call of die("read").
ReadWait(st, nread, errno, b) ==
    LET s == [st EXCEPT !.nread = nread,
                        !.errno = IF nread = 0 - 1 THEN errno ELSE st.errno]
    IN  IF nread = 1 THEN ReadKeyStep(s, <<b>>)
        ELSE IF nread = 0 - 1 /\ s.errno # "EAGAIN" THEN [s EXCEPT !.at = "die"]
        ELSE s

---------------------------------------------------------------------------
\* File input.

\* getline(): the text up to and including its first newline, or all of it.
RECURSIVE GetLineLen(_, _)
GetLineLen(text, i) ==
    IF i > Len(text) THEN Len(text)
    ELSE IF text[i] = NL THEN i
    ELSE GetLineLen(text, i + 1)

\* while (linelen > 0 && (line[linelen-1] == '\n' || line[linelen-1] == '\r'))
RECURSIVE StripLineEnd(_, _)
StripLineEnd(line, linelen) ==
    IF linelen > 0 /\ (line[linelen] = NL \/ line[linelen] = CR)
    THEN StripLineEnd(line, linelen - 1)
    ELSE linelen

\* The getline loop of editorOpen over what is left of the file.
RECURSIVE OpenLoop(_, _)
OpenLoop(e, text) ==
    IF text = <<>> THEN e
    ELSE LET n == GetLineLen(text, 1)
             line == SubSeq(text, 1, n)
             linelen == StripLineEnd(line, n)
         IN  OpenLoop(editorAppendRow(e, SubSeq(line, 1, linelen)),
                      SubSeq(text, n + 1, Len(text)))

\* void editorOpen(char *filename), the file holding text.
editorOpen(e, filename, text) == OpenLoop([e EXCEPT !.filename = filename], text)

\* char *editorRowsToString(int *buflen): the rows from row j on, each
\* followed by a newline.
RECURSIVE RowsToStringLoop(_, _)
RowsToStringLoop(e, j) ==
    IF j < e.numrows
    THEN e.row[j + 1].chars \o <<NL>> \o RowsToStringLoop(e, j + 1)
    ELSE <<>>

editorRowsToString(e) == RowsToStringLoop(e, 0)

\* editorSave that writes a buffer without a file name to the first file.
SaveUnnamedToo(e, d) ==
    LET name == IF e.filename = NULL THEN CHOOSE f \in DOMAIN d.content : TRUE
                ELSE e.filename
    IN  [content |-> [d.content EXCEPT ![name] = editorRowsToString(e)],
         opened |-> d.opened \cup {name}]

\* void editorSave(), d being the file system: open with O_RDWR | O_CREAT,
\* ftruncate to the length of the string and write the string.
editorSave(e, d) ==
    IF e.filename = NULL THEN d
    ELSE [content |-> [d.content EXCEPT ![e.filename] = editorRowsToString(e)],
          opened |-> d.opened \cup {e.filename}]

---------------------------------------------------------------------------
\* Terminal.  t.attr is what the terminal's attributes are ("orig" as the
\* process found them, or "raw"), t.saved counts the tcgetattr calls that
\* filled E.orig_termios, t.atexit tells that disableRawMode is registered,
\* t.entered that the terminal was put into raw mode, t.restores counts the
\* tcsetattr calls that put the original attributes back, t.status is the
\* argument of the last exit(), and t.reexit tells that exit() was called
\* from inside the atexit handler.

\* Results of a system call: -1 for failure, 0 for success.
FAIL == 0 - 1
OK == FAIL + 1

TermStart ==
    [attr |-> "orig", saved |-> 0, atexit |-> FALSE, entered |-> FALSE,
     restores |-> 0, status |-> 0, reexit |-> FALSE]

\* void disableRawMode(), rc being what its tcsetattr returns; it runs as the
\* atexit handler, so its die("tcsetattr") is an exit(1) inside exit().
disableRawMode(t, rc) ==
    IF rc = FAIL THEN [t EXCEPT !.status = 1, !.reexit = TRUE]
    ELSE [t EXCEPT !.attr = "orig", !.restores = t.restores + 1]

\* exit(status): the handler registered with atexit runs.
exit(t, status, rc) ==
    LET t1 == [t EXCEPT !.status = status]
    IN  IF t.atexit THEN disableRawMode(t1, rc) ELSE t1

\* void die(const char *s)
die(t, rc) == exit(t, 1, rc)

\* void enableRawMode(), get and set being what tcgetattr and tcsetattr
\* return and rc what the tcsetattr of disableRawMode returns if it comes to it.
enableRawMode(t, get, set, rc) ==
    IF get = FAIL THEN die(t, rc)
    ELSE LET t1 == [t EXCEPT !.saved = t.saved + 1, !.atexit = TRUE]
         IN  IF set = FAIL THEN die(t1, rc)
             ELSE [t1 EXCEPT !.attr = "raw", !.entered = TRUE]

\* Where the process is once exit() has been called: it has ended, or, exit()
\* having been called a second time from inside the handler (undefined
\* behaviour), it has ended or hangs.
AfterExit(t) == IF t.reexit THEN {"exited", "hung"} ELSE {"exited"}

---------------------------------------------------------------------------
\* Output.

\* editorScroll without the branch that scrolls down and right.
ScrollOnlyBack(e) ==
    LET e1 == [e EXCEPT !.rx = IF e.cy < e.numrows
                                THEN editorRowCxToRx(e.row[e.cy + 1], e.cx) ELSE 0]
        e2 == IF e1.cy < e1.rowoff THEN [e1 EXCEPT !.rowoff = e1.cy] ELSE e1
    IN  IF e2.rx < e2.coloff THEN [e2 EXCEPT !.coloff = e2.rx] ELSE e2

\* editorScroll that puts the cursor on the first row and column of the
\* window when it scrolls down or right.
ScrollToFirstEdge(e) ==
    LET e1 == [e EXCEPT !.rx = IF e.cy < e.numrows
                                THEN editorRowCxToRx(e.row[e.cy + 1], e.cx) ELSE 0]
        e2 == IF e1.cy < e1.rowoff \/ e1.cy >= e1.rowoff + e1.screenrows
              THEN [e1 EXCEPT !.rowoff = e1.cy] ELSE e1
    IN  IF e2.rx < e2.coloff \/ e2.rx >= e2.coloff + e2.screencols
        THEN [e2 EXCEPT !.coloff = e2.rx] ELSE e2

\* void editorScroll()
editorScroll(e) ==
    LET e1 == [e EXCEPT !.rx = IF e.cy < e.numrows
                                THEN editorRowCxToRx(e.row[e.cy + 1], e.cx) ELSE 0]
        e2 == IF e1.cy < e1.rowoff THEN [e1 EXCEPT !.rowoff = e1.cy] ELSE e1
        e3 == IF e2.cy >= e2.rowoff + e2.screenrows
              THEN [e2 EXCEPT !.rowoff = e2.cy - e2.screenrows + 1] ELSE e2
        e4 == IF e3.rx < e3.coloff THEN [e3 EXCEPT !.coloff = e3.rx] ELSE e3
    IN  IF e4.rx >= e4.coloff + e4.screencols
        THEN [e4 EXCEPT !.coloff = e4.rx - e4.screencols + 1] ELSE e4

\* A file name longer than the 20 characters the status bar shows of it.
LongName == "aaaaaaaaaaaaaaaaaaaaaaaaa"

\* The characters of a file name.
NameBytes(filename) ==
    CASE filename = "a.txt" -> <<97, 46, 116, 120, 116>>
      [] filename = "tabs.txt" -> <<116, 97, 98, 115, 46, 116, 120, 116>>
      [] filename = "cols.txt" -> <<99, 111, 108, 115, 46, 116, 120, 116>>
      [] filename = LongName -> [i \in 1..25 |-> CHAR_a]

\* "[No Name]", " - " and " lines"
NoName == <<LBRACKET, 78, 111, SPACE, 78, 97, 109, 101, 93>>
Dash == <<SPACE, 45, SPACE>>
LinesWord == <<SPACE, 108, 105, 110, 101, 115>>

\* "\x1b[7m" and "\x1b[m"
SGR_REVERSE == <<ESC, LBRACKET, DIGIT_0 + 7, 109>>
SGR_RESET == <<ESC, LBRACKET, 109>>

\* %d of a number that is not negative.
RECURSIVE Decimal(_)
Decimal(n) ==
    IF n < 10 THEN <<DIGIT_0 + n>>
    ELSE Decimal(n \div 10) \o <<DIGIT_0 + (n % 10)>>

\* %.20s
Precision20(str) == SubSeq(str, 1, IF Len(str) > 20 THEN 20 ELSE Len(str))

\* snprintf(status, sizeof(status), "%.20s - %d lines", ...), under 80 bytes
StatusText(e) ==
    Precision20(IF e.filename # NULL THEN NameBytes(e.filename) ELSE NoName)
        \o Dash \o Decimal(e.numrows) \o LinesWord

\* snprintf(rstatus, sizeof(rstatus), "%d%d", E.cy + 1, E.numrows)
RStatusText(e) == Decimal(e.cy + 1) \o Decimal(e.numrows)

\* while (len < E.screencols): what the loop appends.
RECURSIVE StatusPad(_, _, _)
StatusPad(len, screencols, rstatus) ==
    IF len < screencols
    THEN IF screencols - len = Len(rstatus) THEN rstatus
         ELSE <<SPACE>> \o StatusPad(len + 1, screencols, rstatus)
    ELSE <<>>

\* editorDrawStatusBar without if (len > E.screencols) len = E.screencols.
DrawStatusBarNoClip(e, buf) ==
    LET status == StatusText(e)
    IN  buf \o SGR_REVERSE \o status
            \o StatusPad(Len(status), e.screencols, RStatusText(e))
            \o SGR_RESET \o <<CR, NL>>

\* void editorDrawStatusBar(struct abuf *ab)
editorDrawStatusBar(e, buf) ==
    LET status == StatusText(e)
        len == IF Len(status) > e.screencols THEN e.screencols ELSE Len(status)
    IN  buf \o SGR_REVERSE \o SubSeq(status, 1, len)
            \o StatusPad(len, e.screencols, RStatusText(e))
            \o SGR_RESET \o <<CR, NL>>

---------------------------------------------------------------------------
\* Input.

\* case ARROW_LEFT that stays at column 0 instead of going to the row above.
MoveLeftNoWrap(e) ==
    IF e.cx # 0 THEN [e EXCEPT !.cx = e.cx - 1] ELSE e

\* case ARROW_LEFT: of editorMoveCursor
MoveLeft(e) ==
    IF e.cx # 0 THEN [e EXCEPT !.cx = e.cx - 1]
    ELSE IF e.cy > 0
         THEN [e EXCEPT !.cy = e.cy - 1, !.cx = e.row[e.cy].size]
         ELSE e

\* case ARROW_RIGHT: of editorMoveCursor
MoveRight(e) ==
    IF e.cy < e.numrows /\ e.cx < e.row[e.cy + 1].size
    THEN [e EXCEPT !.cx = e.cx + 1]
    ELSE IF e.cy < e.numrows /\ e.cx = e.row[e.cy + 1].size
         THEN [e EXCEPT !.cy = e.cy + 1, !.cx = 0]
         ELSE e

\* case ARROW_UP: of editorMoveCursor
MoveUp(e) == IF e.cy # 0 THEN [e EXCEPT !.cy = e.cy - 1] ELSE e

\* case ARROW_DOWN: of editorMoveCursor
MoveDown(e) == IF e.cy < e.numrows THEN [e EXCEPT !.cy = e.cy + 1] ELSE e

\* The switch of editorMoveCursor ('h', 'l', 'k', 'j' are 104, 108, 107, 106).
MoveSwitch(e, key) ==
    CASE key = ARROW_LEFT \/ key = 104 -> MoveLeft(e)
      [] key = ARROW_RIGHT \/ key = 108 -> MoveRight(e)
      [] key = ARROW_UP \/ key = 107 -> MoveUp(e)
      [] key = ARROW_DOWN \/ key = 106 -> MoveDown(e)
      [] OTHER -> e

\* The end of editorMoveCursor: cx is brought back to the length of row cy.
SnapCx(e) ==
    LET rowlen == IF e.cy >= e.numrows THEN 0 ELSE e.row[e.cy + 1].size
    IN  IF e.cx > rowlen THEN [e EXCEPT !.cx = rowlen] ELSE e

\* editorMoveCursor that leaves cx where the switch put it.
MoveCursorNoSnap(e, key) == MoveSwitch(e, key)

\* void editorMoveCursor(int key)
editorMoveCursor(e, key) == SnapCx(MoveSwitch(e, key))

\* while (times--) editorMoveCursor(...)
RECURSIVE MoveTimes(_, _, _)
MoveTimes(e, key, times) ==
    IF times # 0 THEN MoveTimes(editorMoveCursor(e, key), key, times - 1) ELSE e

\* case PAGE_UP / PAGE_DOWN without if (E.cy > E.numrows) E.cy = E.numrows.
PageMoveNoLimit(e, key) ==
    LET e1 == IF key = PAGE_UP THEN [e EXCEPT !.cy = e.rowoff]
              ELSE [e EXCEPT !.cy = e.rowoff + e.screenrows - 1]
    IN  MoveTimes(e1, IF key = PAGE_UP THEN ARROW_UP ELSE ARROW_DOWN, e.screenrows)

\* case PAGE_UP / PAGE_DOWN that moves screenrows lines from where the cursor is.
PageMoveNoJump(e, key) ==
    MoveTimes(e, IF key = PAGE_UP THEN ARROW_UP ELSE ARROW_DOWN, e.screenrows)

\* case PAGE_UP: case PAGE_DOWN: of editorProcessKeypress
PageMove(e, key) ==
    LET e1 == IF key = PAGE_UP THEN [e EXCEPT !.cy = e.rowoff]
              ELSE LET cy == e.rowoff + e.screenrows - 1
                   IN  [e EXCEPT !.cy = IF cy > e.numrows THEN e.numrows ELSE cy]
    IN  MoveTimes(e1, IF key = PAGE_UP THEN ARROW_UP ELSE ARROW_DOWN, e.screenrows)

\* The cases that only break, those of Backspace, Ctrl-H and Delete left out.
IsNoOpKeyNoErase(key) ==
    key \in {CR, CTRL_L, ESC}

\* The keys whose case in editorProcessKeypress only breaks.
IsNoOpKey(key) ==
    key \in {CR, BACKSPACE, CTRL_H, DEL_KEY, CTRL_L, ESC}

\* The keys that reach default: of editorProcessKeypress.
IsInsertKey(key) ==
    /\ ~IsNoOpKey(key)
    /\ key \notin {CTRL_Q, CTRL_S, HOME_KEY, END_KEY, PAGE_UP, PAGE_DOWN,
                   ARROW_UP, ARROW_DOWN, ARROW_LEFT, ARROW_RIGHT}

\* case HOME_KEY: of editorProcessKeypress
HomeKey(e) == [e EXCEPT !.cx = 0]

\* case END_KEY that stops on the last character instead of behind it.
EndKeyOnLast(e) ==
    IF e.cy < e.numrows /\ e.row[e.cy + 1].size > 0
    THEN [e EXCEPT !.cx = e.row[e.cy + 1].size - 1]
    ELSE e

\* case END_KEY: of editorProcessKeypress
EndKey(e) ==
    IF e.cy < e.numrows THEN [e EXCEPT !.cx = e.row[e.cy + 1].size] ELSE e

\* The switch of editorProcessKeypress on E, for every key but Ctrl-Q
\* (editorSave, the case of Ctrl-S, writes the file and leaves E alone).
ProcessKey(e, key) ==
    CASE IsNoOpKey(key) -> e
      [] key = CTRL_S -> e
      [] key = HOME_KEY -> HomeKey(e)
      [] key = END_KEY -> EndKey(e)
      [] key = PAGE_UP \/ key = PAGE_DOWN -> PageMove(e, key)
      [] key \in {ARROW_UP, ARROW_DOWN, ARROW_LEFT, ARROW_RIGHT} ->
            editorMoveCursor(e, key)
      [] OTHER -> editorInsertChar(e, key)

---------------------------------------------------------------------------
\* The editor: main.

\* void initEditor(), the terminal leaving screenrows text rows (its rows
\* less the two bars) and screencols columns.
initEditor(screenrows, screencols) ==
    [cx |-> 0, cy |-> 0, rx |-> 0, rowoff |-> 0, coloff |-> 0,
     screenrows |-> screenrows, screencols |-> screencols,
     numrows |-> 0, row |-> <<>>, filename |-> NULL]

\* The files kilo may be started on: "\taa\n\naa\r\n", "a\t\n\t\n" and "a".
FileNames == {"tabs.txt", "cols.txt", "a.txt"}

FileText(filename) ==
    IF filename = "tabs.txt" THEN <<TAB, CHAR_a, CHAR_a, NL, NL, CHAR_a, CHAR_a, CR, NL>>
    ELSE IF filename = "cols.txt" THEN <<CHAR_a, TAB, NL, TAB, NL>>
    ELSE <<CHAR_a>>

\* The keys of the keyboard, each as the bytes the terminal sends for it; the
\* last is Ctrl-Right, ESC [ 1 ; 5 C, a sequence editorReadKey does not know.
PrintableKeys == {<<CHAR_a>>, <<TAB>>}

KnownEscapeKeys ==
    {<<ESC, LBRACKET, CHAR_A>>, <<ESC, LBRACKET, CHAR_B>>,
     <<ESC, LBRACKET, CHAR_C>>, <<ESC, LBRACKET, CHAR_D>>,
     <<ESC, LBRACKET, CHAR_H>>, <<ESC, CHAR_O, CHAR_F>>,
     <<ESC, LBRACKET, DIGIT_0 + 3, TILDE>>,
     <<ESC, LBRACKET, DIGIT_0 + 5, TILDE>>, <<ESC, LBRACKET, DIGIT_0 + 6, TILDE>>}

ControlKeys == {<<CR>>, <<BACKSPACE>>, <<CTRL_H>>, <<CTRL_L>>, <<CTRL_S>>, <<CTRL_Q>>, <<ESC>>}

UnknownEscapeKeys == {<<ESC, LBRACKET, DIGIT_0 + 1, SEMICOLON, DIGIT_5, CHAR_C>>}

TypedKeys == PrintableKeys \cup KnownEscapeKeys \cup ControlKeys \cup UnknownEscapeKeys

\* The raw characters of the whole buffer.
RECURSIVE TotalChars(_, _)
TotalChars(e, j) ==
    IF j < e.numrows THEN e.row[j + 1].size + TotalChars(e, j + 1) ELSE 0

\* The file system as the process starts.
DiskStart == [content |-> [f \in FileNames |-> FileText(f)], opened |-> {}]

\* The state as main enters its loop: enableRawMode, initEditor and, when a
\* file is named, editorOpen.  The terminal has at least three rows and one
\* column, so that screenrows >= 1 and screencols >= 1: on a terminal of two
\* rows (screenrows = 0) PageDown sets E.cy = E.rowoff - 1 and moves no line.
Init ==
    /\ \E screenrows \in 1..MaxScreenRows, screencols \in 1..MaxScreenCols :
         \E arg \in {NULL} \cup FileNames :
            E = IF arg = NULL THEN initEditor(screenrows, screencols)
                ELSE editorOpen(initEditor(screenrows, screencols), arg, FileText(arg))
    /\ stdin = <<>>
    /\ pc = "refresh"
    /\ c = 0
    /\ rk = ReadKeyStart
    /\ ab = <<>>
    /\ disk = DiskStart
    /\ term = enableRawMode(TermStart, OK, OK, OK)

\* A loop that refreshes the screen once and then only processes keys.
LoopRefreshOnce(at) == "read"

\* while (1) { editorRefreshScreen(); editorProcessKeypress(); }: the call
\* that follows the call at.
LoopNext(at) == IF at = "refresh" THEN "read" ELSE "refresh"

\* void editorRefreshScreen(): editorScroll, then the frame is drawn from E.
RefreshScreen ==
    /\ pc = "refresh"
    /\ E' = editorScroll(E)
    /\ pc' = LoopNext(pc)
    /\ c' = 0
    /\ UNCHANGED <<stdin, rk, disk, term, ab>>

\* void editorProcessKeypress(): editorReadKey on the bytes pending, or on
\* those of the next key typed when none is pending, then the switch.  An insert
\* is explored while the buffer holds fewer than MaxChars characters.
ProcessKeypress ==
    /\ pc = "read"
    /\ \E buf \in (IF stdin = <<>> THEN TypedKeys ELSE {stdin}) :
         LET r == editorReadKey(buf)
         IN  /\ IsInsertKey(r.key) => TotalChars(E, 0) < MaxChars
             /\ c' = r.key
             /\ stdin' = SubSeq(buf, Len(Consumed(r)) + 1, Len(buf))
             /\ disk' = IF r.key = CTRL_S THEN editorSave(E, disk) ELSE disk
             /\ IF r.key = CTRL_Q
                THEN /\ E' = E
                     /\ \E rc \in {OK, FAIL} : term' = exit(term, 0, rc)
                     /\ pc' \in AfterExit(term')
                ELSE /\ E' = ProcessKey(E, r.key)
                     /\ pc' = LoopNext(pc)
                     /\ term' = term
    /\ UNCHANGED <<rk, ab>>

Next == RefreshScreen \/ ProcessKeypress

Spec == Init /\ [][Next]_vars

---------------------------------------------------------------------------
\* editorReadKey taken alone, one read() at a time: each read stores any byte
\* of KeyBytes or times out.

KeyBytes ==
    {ESC, LBRACKET, CHAR_O, TILDE, SEMICOLON, BACKSPACE, CHAR_a, TAB,
     CHAR_A, CHAR_B, CHAR_C, CHAR_D, CHAR_F, CHAR_H}
    \cup DIGIT_0..DIGIT_9

ReadResults == {<<>>} \cup {<<b>> : b \in KeyBytes}

InitKey ==
    /\ E = initEditor(1, 1)
    /\ stdin = <<>>
    /\ pc = "read"
    /\ c = 0
    /\ rk = ReadKeyStart
    /\ ab = <<>>
    /\ disk = DiskStart
    /\ term = enableRawMode(TermStart, OK, OK, OK)

\* One read() of editorReadKey and what follows it up to the next read.
KeyRead ==
    /\ rk.at # "ret"
    /\ \E r \in ReadResults : rk' = ReadKeyStep(rk, r)
    /\ UNCHANGED <<E, stdin, pc, c, disk, term, ab>>

\* The call has returned; the next call begins.
KeyReturn ==
    /\ rk.at = "ret"
    /\ rk' = ReadKeyStart
    /\ UNCHANGED <<E, stdin, pc, c, disk, term, ab>>

NextKey == KeyRead \/ KeyReturn

SpecKey == InitKey /\ [][NextKey]_vars

---------------------------------------------------------------------------
\* The row functions taken alone, on every line of up to MaxLine characters
\* drawn from 'a' and tab.

Lines == UNION {[1..n -> {CHAR_a, TAB}] : n \in 0..MaxLine}

\* Inside editorAppendRow, the row filled in and not yet rendered.
InitRow ==
    /\ \E s \in Lines :
         E = [initEditor(1, 1) EXCEPT
                !.row = <<[size |-> Len(s), rsize |-> 0, chars |-> s, render |-> <<>>]>>]
    /\ stdin = <<>>
    /\ pc = "raw"
    /\ c = 0
    /\ rk = ReadKeyStart
    /\ ab = <<>>
    /\ disk = DiskStart
    /\ term = enableRawMode(TermStart, OK, OK, OK)

\* editorUpdateRow(&E.row[at]); E.numrows++;
RowUpdate ==
    /\ pc = "raw"
    /\ E' = [E EXCEPT !.row[1] = editorUpdateRow(E.row[1]), !.numrows = 1]
    /\ pc' = "rendered"
    /\ UNCHANGED <<stdin, c, rk, disk, term, ab>>

\* E.rx = editorRowCxToRx(&E.row[E.cy], E.cx), for any column of the row.
RowCxToRx ==
    /\ pc = "rendered"
    /\ \E cx \in 0..E.row[1].size :
         E' = [E EXCEPT !.cx = cx, !.rx = editorRowCxToRx(E.row[1], cx)]
    /\ UNCHANGED <<stdin, pc, c, rk, disk, term, ab>>

NextRow == RowUpdate \/ RowCxToRx

SpecRow == InitRow /\ [][NextRow]_vars

---------------------------------------------------------------------------
\* editorReadKey taken alone with every result of read(): a byte, a timeout
\* (0), or -1 with one of Errnos.

InitWait ==
    /\ E = initEditor(1, 1)
    /\ stdin = <<>>
    /\ pc = "read"
    /\ c = 0
    /\ rk = WaitStart
    /\ ab = <<>>
    /\ disk = DiskStart
    /\ term = enableRawMode(TermStart, OK, OK, OK)

\* One read() of the loop that waits for the first byte of a key.
WaitRead ==
    /\ pc = "read" /\ rk.at = "c"
    /\ \E nread \in {1, 0, FAIL}, errno \in Errnos, b \in KeyBytes :
         /\ rk' = ReadWait(rk, nread, errno, b)
         /\ IF rk'.at = "die"
            THEN /\ \E rc \in {OK, FAIL} : term' = die(term, rc)
                 /\ pc' \in AfterExit(term')
            ELSE UNCHANGED <<pc, term>>
    /\ UNCHANGED <<E, stdin, c, disk, ab>>

\* One read() behind the escape byte.
WaitFollow ==
    /\ pc = "read" /\ rk.at \in {"seq0", "seq1", "seq2"}
    /\ \E r \in ReadResults : rk' = ReadKeyStep(rk, r)
    /\ UNCHANGED <<E, stdin, pc, c, disk, term, ab>>

\* The call has returned its key; the next call begins.
WaitReturn ==
    /\ pc = "read" /\ rk.at = "ret"
    /\ rk' = [WaitStart EXCEPT !.errno = rk.errno]
    /\ UNCHANGED <<E, stdin, pc, c, disk, term, ab>>

NextWait == WaitRead \/ WaitFollow \/ WaitReturn

SpecWait == InitWait /\ [][NextWait]_vars

---------------------------------------------------------------------------
\* editorDrawStatusBar taken alone, for every screen width up to MaxBarCols,
\* every file name (none, two short ones, one of 25 characters), every number
\* of rows up to MaxBarRows and every cursor row.

\* The rows do not show in the status bar: they are empty here.
EmptyRows(n) == [i \in 1..n |-> editorUpdateRow([size |-> 0, rsize |-> 0, chars |-> <<>>, render |-> <<>>])]

\* Inside editorRefreshScreen, behind editorDrawRows (ab not shown).
InitBar ==
    /\ \E screencols \in 1..MaxBarCols, numrows \in 0..MaxBarRows :
         \E cy \in 0..numrows, name \in {NULL, LongName} \cup FileNames :
            E = [initEditor(1, screencols) EXCEPT
                    !.filename = name, !.numrows = numrows,
                    !.row = EmptyRows(numrows), !.cy = cy, !.rowoff = cy]
    /\ stdin = <<>>
    /\ pc = "rows drawn"
    /\ c = 0
    /\ rk = ReadKeyStart
    /\ ab = <<>>
    /\ disk = DiskStart
    /\ term = enableRawMode(TermStart, OK, OK, OK)

\* editorDrawStatusBar(&ab);
DrawStatusBar ==
    /\ pc = "rows drawn"
    /\ ab' = editorDrawStatusBar(E, ab)
    /\ pc' = "status drawn"
    /\ UNCHANGED <<E, stdin, c, rk, disk, term>>

\* write(STDOUT_FILENO, ab.b, ab.len); abFree(&ab);
BarFree ==
    /\ pc = "status drawn"
    /\ ab' = <<>>
    /\ pc' = "read"
    /\ UNCHANGED <<E, stdin, c, rk, disk, term>>

NextBar == DrawStatusBar \/ BarFree

SpecBar == InitBar /\ [][NextBar]_vars

---------------------------------------------------------------------------
\* editorOpen and editorSave taken alone, on every file text of up to MaxText
\* bytes drawn from 'a', newline and carriage return.

Texts == UNION {[1..n -> {CHAR_a, NL, CR}] : n \in 0..MaxText}

\* main after initEditor, every file holding the same text.
InitFile ==
    /\ E = initEditor(1, 1)
    /\ stdin = <<>>
    /\ pc = "start"
    /\ c = 0
    /\ rk = ReadKeyStart
    /\ ab = <<>>
    /\ \E text \in Texts :
         disk = [content |-> [f \in FileNames |-> text], opened |-> {}]
    /\ term = enableRawMode(TermStart, OK, OK, OK)

\* editorOpen(argv[1]), the fopen succeeding.
FileOpen ==
    /\ pc = "start"
    /\ \E f \in FileNames : E' = editorOpen(E, f, disk.content[f])
    /\ pc' = "opened"
    /\ UNCHANGED <<stdin, c, rk, disk, term, ab>>

\* editorSave() on the rows as they were loaded.
FileSave ==
    /\ pc = "opened"
    /\ disk' = editorSave(E, disk)
    /\ pc' = "saved"
    /\ UNCHANGED <<E, stdin, c, rk, term, ab>>

NextFile == FileOpen \/ FileSave

SpecFile == InitFile /\ [][NextFile]_vars

---------------------------------------------------------------------------
\* The process from the entry of main to its end: enableRawMode, initEditor,
\* editorOpen and the loop, every system call that can make them die failing
\* or not.

\* The process enters main: E is zero-initialized, the terminal as it was.
InitLife ==
    /\ E = initEditor(0, 0)
    /\ stdin = <<>>
    /\ pc = "main"
    /\ c = 0
    /\ rk = ReadKeyStart
    /\ ab = <<>>
    /\ disk = DiskStart
    /\ term = TermStart

\* enableRawMode(): tcgetattr, atexit, tcsetattr.
MainEnableRawMode ==
    /\ pc = "main"
    /\ \E get \in {OK, FAIL}, set \in {OK, FAIL}, rc \in {OK, FAIL} :
         /\ term' = enableRawMode(term, get, set, rc)
         /\ pc' \in IF get = OK /\ set = OK THEN {"init"} ELSE AfterExit(term')
    /\ UNCHANGED <<E, stdin, c, rk, disk, ab>>

\* initEditor(): the fields are set and getWindowSize gives the screen size
\* or fails.
MainInitEditor ==
    /\ pc = "init"
    /\ \E ws \in {OK, FAIL}, rc \in {OK, FAIL} :
         IF ws = FAIL
         THEN /\ term' = die(term, rc)
              /\ pc' \in AfterExit(term')
              /\ E' = E
         ELSE /\ \E screenrows \in 1..MaxScreenRows, screencols \in 1..MaxScreenCols :
                    E' = initEditor(screenrows, screencols)
              /\ pc' = "open"
              /\ term' = term
    /\ UNCHANGED <<stdin, c, rk, disk, ab>>

\* if (argc >= 2) editorOpen(argv[1]): the fopen succeeds or fails.
MainOpen ==
    /\ pc = "open"
    /\ \E arg \in {NULL} \cup FileNames, fp \in {OK, FAIL}, rc \in {OK, FAIL} :
         IF arg # NULL /\ fp = FAIL
         THEN /\ E' = [E EXCEPT !.filename = arg]
              /\ term' = die(term, rc)
              /\ pc' \in AfterExit(term')
         ELSE /\ E' = IF arg = NULL THEN E ELSE editorOpen(E, arg, disk.content[arg])
              /\ pc' = "refresh"
              /\ term' = term
    /\ UNCHANGED <<stdin, c, rk, disk, ab>>

\* editorReadKey: read() returns -1 with errno other than EAGAIN, die("read").
ReadFails ==
    /\ pc = "read"
    /\ \E rc \in {OK, FAIL} : term' = die(term, rc)
    /\ pc' \in AfterExit(term')
    /\ UNCHANGED <<E, stdin, c, rk, disk, ab>>

NextLife ==
    \/ MainEnableRawMode
    \/ MainInitEditor
    \/ MainOpen
    \/ RefreshScreen
    \/ ProcessKeypress
    \/ ReadFails

SpecLife == InitLife /\ [][NextLife]_vars

---------------------------------------------------------------------------
\* Properties.

\* The rendered form editorUpdateRow gives the raw characters s.
Render(s) ==
    editorUpdateRow([size |-> Len(s), rsize |-> 0, chars |-> s, render |-> <<>>]).render

Spaces(n) == [i \in 1..n |-> SPACE]

\* C1: right after every editorScroll (the state in which the key is read) the
\* cursor row lies in [rowoff, rowoff + screenrows) and the rendered column rx
\* in [coloff, coloff + screencols).
C1_ScrollInvariant ==
    pc = "read" =>
        /\ E.rowoff <= E.cy /\ E.cy < E.rowoff + E.screenrows
        /\ E.coloff <= E.rx /\ E.rx < E.coloff + E.screencols

\* The window has scrolled both down and right to keep the cursor in it.
C1_Witness ==
    /\ pc = "read" /\ E.rowoff > 0 /\ E.coloff > 0
    /\ E.cy = E.rowoff + E.screenrows - 1 /\ E.rx = E.coloff + E.screencols - 1

MovementKeys == {ARROW_UP, ARROW_DOWN, ARROW_LEFT, ARROW_RIGHT, PAGE_UP, PAGE_DOWN}

\* C2: after every cursor movement (an arrow key, PageUp, PageDown) cx is not
\* negative and not beyond the raw length of row cy, and is 0 on the virtual
\* line past the last row.
C2_CxWithinRow ==
    (pc = "refresh" /\ c \in MovementKeys) =>
        /\ E.cx >= 0
        /\ E.cy >= 0 /\ E.cy < E.numrows => E.cx <= E.row[E.cy + 1].size
        /\ E.cy = E.numrows => E.cx = 0

\* ArrowUp from column 2 of "aa" onto the empty row above it: cx came back to 0
\* (rx still holds the rendered column the cursor left).
C2_Witness ==
    /\ pc = "refresh" /\ c = ARROW_UP /\ E.filename = "tabs.txt"
    /\ E.cy = 1 /\ E.row[2].size = 0 /\ E.cx = 0 /\ E.rx = 2

C4_RenderNeverStale ==
    /\ Len(E.row) = E.numrows
    /\ \A i \in 1..E.numrows :
         /\ E.row[i].size = Len(E.row[i].chars)
         /\ E.row[i].render = Render(E.row[i].chars)
         /\ E.row[i].rsize = Len(Render(E.row[i].chars))

\* A tab has just been inserted before an 'a' typed earlier: the row was
\* rendered again, the 'a' now standing at rendered column 8.
C4_Witness ==
    /\ pc = "refresh" /\ c = TAB /\ E.numrows >= 1
    /\ E.row[1].chars = <<TAB, CHAR_a>>
    /\ E.row[1].render = Spaces(8) \o <<CHAR_a>>
    /\ E.row[1].rsize = 9

\* C5: in the row editorUpdateRow has rendered, a tab met at rendered column r
\* stands as exactly 8 - (r mod 8) spaces, which end at the smallest multiple
\* of 8 greater than r, and every other character stands as itself.
C5_TabExpansion ==
    pc = "rendered" =>
        LET row == E.row[1]
        IN  /\ row.rsize = Len(row.render)
            /\ \A j \in 1..row.size :
                 LET pre == Render(SubSeq(row.chars, 1, j - 1))
                     r == Len(pre)
                     n == IF row.chars[j] = TAB THEN 8 - (r % 8) ELSE 1
                     out == IF row.chars[j] = TAB THEN Spaces(n) ELSE <<row.chars[j]>>
                 IN  /\ Len(row.render) >= r + n
                     /\ SubSeq(row.render, 1, r + n) = pre \o out
                     /\ Render(SubSeq(row.chars, 1, j)) = pre \o out
                     /\ row.chars[j] = TAB =>
                            /\ (r + n) % 8 = 0
                            /\ r + n > r
                            /\ r + n - 8 <= r

\* "aaaaa\t": the tab met at rendered column 5 stands as 3 spaces.
C5_Witness ==
    /\ pc = "rendered"
    /\ E.row[1].chars = <<CHAR_a, CHAR_a, CHAR_a, CHAR_a, CHAR_a, TAB>>
    /\ E.row[1].render = <<CHAR_a, CHAR_a, CHAR_a, CHAR_a, CHAR_a, SPACE, SPACE, SPACE>>

\* C6: editorRowCxToRx(row, cx) is the length of the expansion of the first cx
\* raw characters, and editorRowCxToRx(row, row.size) is row.rsize.
C6_CxToRxAgrees ==
    pc = "rendered" =>
        /\ E.rx = Len(Render(SubSeq(E.row[1].chars, 1, E.cx)))
        /\ E.cx = E.row[1].size => E.rx = E.row[1].rsize

\* The column past "a\ta\t": cx = 4 stands at rendered column 16 = rsize.
C6_Witness ==
    /\ pc = "rendered" /\ E.row[1].chars = <<CHAR_a, TAB, CHAR_a, TAB>>
    /\ E.cx = 4 /\ E.rx = 16 /\ E.row[1].rsize = 16

\* The three-byte sequences of the dispatch table: seq[0], seq[1], key.
ThreeByteTable ==
    {<<LBRACKET, CHAR_A, ARROW_UP>>, <<LBRACKET, CHAR_B, ARROW_DOWN>>,
     <<LBRACKET, CHAR_C, ARROW_RIGHT>>, <<LBRACKET, CHAR_D, ARROW_LEFT>>,
     <<LBRACKET, CHAR_H, HOME_KEY>>, <<CHAR_O, CHAR_H, HOME_KEY>>,
     <<LBRACKET, CHAR_F, END_KEY>>, <<CHAR_O, CHAR_F, END_KEY>>}

\* C7: once ESC and the two bytes of a table entry are read, editorReadKey has
\* returned the entry's key, having taken exactly those three bytes.
C7_ThreeByteSequences ==
    \A t \in ThreeByteTable :
        (rk.at # "c" /\ rk.c = ESC /\ Len(rk.seq) >= 2
            /\ rk.seq[1] = t[1] /\ rk.seq[2] = t[2]) =>
                /\ rk.at = "ret"
                /\ rk.key = t[3]
                /\ Consumed(rk) = <<ESC, t[1], t[2]>>

\* ESC [ D has been read and returned as ArrowLeft.
C7_Witness ==
    rk.at = "ret" /\ rk.c = ESC /\ rk.seq = <<LBRACKET, CHAR_D>> /\ rk.key = ARROW_LEFT

\* The key the claim gives ESC [ <digit> ~.
TildeKey(d) ==
    CASE d \in {DIGIT_0 + 1, DIGIT_0 + 7} -> HOME_KEY
      [] d = DIGIT_0 + 3 -> DEL_KEY
      [] d \in {DIGIT_0 + 4, DIGIT_0 + 8} -> END_KEY
      [] d = DIGIT_0 + 5 -> PAGE_UP
      [] d = DIGIT_0 + 6 -> PAGE_DOWN
      [] d \in {DIGIT_0, DIGIT_0 + 2, DIGIT_0 + 9} -> ESC

\* C8: after ESC [ <digit> the decoder reads one more byte (returning no key
\* but bare Escape, should that read time out), and when that byte is '~' it
\* returns Home for 1 and 7, Delete for 3, End for 4 and 8, PageUp for
\* 5, PageDown for 6 and bare Escape for 0, 2 and 9.
C8_DigitTildeSequences ==
    /\ (rk.at # "c" /\ rk.c = ESC /\ Len(rk.seq) = 2
          /\ rk.seq[1] = LBRACKET /\ IsDigit(rk.seq[2])) =>
                \/ rk.at = "seq2"
                \/ rk.at = "ret" /\ rk.key = ESC
    /\ (rk.at # "c" /\ rk.c = ESC /\ Len(rk.seq) = 3
          /\ rk.seq[1] = LBRACKET /\ rk.seq[3] = TILDE) =>
                /\ rk.at = "ret"
                /\ rk.key = TildeKey(rk.seq[2])

\* ESC [ 7 ~ has been read and returned as Home.
C8_Witness ==
    /\ rk.at = "ret" /\ rk.c = ESC
    /\ rk.seq = <<LBRACKET, DIGIT_0 + 7, TILDE>> /\ rk.key = HOME_KEY

\* C9: the bytes of an unrecognized escape sequence are swallowed: no byte of
\* one is inserted into the buffer, so the buffer holds only what the file held
\* and what was typed as a printable key ('a' or tab here).
C9_UnknownSequenceSwallowed ==
    \A i \in 1..E.numrows : \A j \in 1..E.row[i].size :
        E.row[i].chars[j] \in {CHAR_a, TAB}

\* C10: byte 127 read first is returned as Backspace, which is not Delete, and
\* Delete is returned only for ESC [ 3 ~.
C10_BackspaceIsNotDelete ==
    rk.at = "ret" =>
        /\ rk.c = BACKSPACE => (rk.key = BACKSPACE /\ rk.key # DEL_KEY)
        /\ rk.key = DEL_KEY => Consumed(rk) = <<ESC, LBRACKET, DIGIT_0 + 3, TILDE>>

\* Byte 127 has been read first and returned.
C10_Witness ==
    rk.at = "ret" /\ rk.c = BACKSPACE /\ rk.seq = <<>> /\ rk.key = 127

\* A step of editorProcessKeypress that has read one of the keys.
KeyProcessed(keys) == pc = "read" /\ pc' = "refresh" /\ c' \in keys

\* The raw characters of row number cy (counted from 0) of e, none on the
\* virtual line past the last row.
RawChars(e, cy) == IF cy < e.numrows THEN e.row[cy + 1].chars ELSE <<>>

\* C11: processing a key of the default case with the cursor at (cx, cy)
\* appends an empty row first when cy = numrows, puts the byte into the raw
\* characters of row cy at position cx with the later characters moved right by
\* one, renders that row again, adds exactly one to cx, and leaves cy and every
\* other row as they were.
C11_InsertAtCursor ==
    [][(pc = "read" /\ pc' = "refresh" /\ IsInsertKey(c')) =>
        LET old == RawChars(E, E.cy)
            new == SubSeq(old, 1, E.cx) \o <<c'>> \o SubSeq(old, E.cx + 1, Len(old))
        IN  /\ E'.numrows = IF E.cy = E.numrows THEN E.numrows + 1 ELSE E.numrows
            /\ Len(E'.row) = E'.numrows
            /\ E'.row[E.cy + 1].chars = new
            /\ E'.row[E.cy + 1].size = Len(old) + 1
            /\ E'.row[E.cy + 1].render = Render(new)
            /\ E'.row[E.cy + 1].rsize = Len(Render(new))
            /\ E'.cx = E.cx + 1
            /\ E'.cy = E.cy
            /\ \A j \in 1..E.numrows : j # E.cy + 1 => E'.row[j] = E.row[j]]_vars

\* A tab has been typed on the virtual line of the empty buffer: a row was
\* appended for it, of raw length 1 and rendered as 8 spaces, and cx is 1.
C11_Witness ==
    /\ pc = "refresh" /\ c = TAB /\ E.numrows = 1 /\ E.cy = 0 /\ E.cx = 1
    /\ E.row[1].chars = <<TAB>> /\ E.row[1].size = 1
    /\ E.row[1].render = Spaces(8) /\ E.row[1].rsize = 8

\* C13: ArrowLeft at column 0 of a row below the first goes to the end of the
\* row above, and does nothing at (0, 0); ArrowRight at the end of a row goes to
\* column 0 of the next line, and does nothing on the virtual line past the
\* last row; anywhere else either key moves cx by exactly one within the row.
\* The rows are left as they were.
C13_LeftRightWrap ==
    [][/\ KeyProcessed({ARROW_LEFT}) =>
            /\ (E.cx = 0 /\ E.cy > 0) =>
                    (E'.cy = E.cy - 1 /\ E'.cx = Len(RawChars(E, E.cy - 1)))
            /\ (E.cx = 0 /\ E.cy = 0) => (E'.cy = 0 /\ E'.cx = 0)
            /\ E.cx > 0 => (E'.cy = E.cy /\ E'.cx = E.cx - 1)
            /\ E'.row = E.row
       /\ KeyProcessed({ARROW_RIGHT}) =>
            /\ (E.cy < E.numrows /\ E.cx = Len(RawChars(E, E.cy))) =>
                    (E'.cy = E.cy + 1 /\ E'.cx = 0)
            /\ E.cy = E.numrows => (E'.cy = E.cy /\ E'.cx = E.cx)
            /\ (E.cy < E.numrows /\ E.cx < Len(RawChars(E, E.cy))) =>
                    (E'.cy = E.cy /\ E'.cx = E.cx + 1)
            /\ E'.row = E.row]_vars

\* ArrowLeft at column 0 of the second row of tabs.txt has put the cursor
\* behind the three characters of the first row.
C13_Witness ==
    /\ pc = "refresh" /\ c = ARROW_LEFT /\ E.filename = "tabs.txt"
    /\ E.cy = 0 /\ E.cx = 3 /\ E.row[1].size = 3

Min(a, b) == IF a < b THEN a ELSE b

Max(a, b) == IF a > b THEN a ELSE b

C16_HomeEnd ==
    [][/\ KeyProcessed({HOME_KEY}) => E'.cx = 0
       /\ KeyProcessed({END_KEY}) =>
            E'.cx = IF E.cy < E.numrows THEN Len(RawChars(E, E.cy)) ELSE E.cx
       /\ KeyProcessed({HOME_KEY, END_KEY}) =>
            /\ E'.cy = E.cy
            /\ E'.numrows = E.numrows /\ E'.row = E.row]_vars

\* End on the first row of tabs.txt, a tab and two letters: cx is the raw
\* length 3, not the rendered length 10.
C16_Witness ==
    /\ pc = "refresh" /\ c = END_KEY /\ E.filename = "tabs.txt"
    /\ E.cy = 0 /\ E.cx = 3 /\ E.row[1].size = 3 /\ E.row[1].rsize = 10

\* C17: processing Backspace (byte 127), Ctrl-H or Delete leaves the number of
\* rows, the raw and the rendered content of every row, and the cursor
\* position (cx, cy) as they were.
C17_EraseKeysNoOp ==
    [][KeyProcessed({BACKSPACE, CTRL_H, DEL_KEY}) =>
            /\ E'.numrows = E.numrows
            /\ E'.row = E.row
            /\ E'.cx = E.cx /\ E'.cy = E.cy]_vars

\* Backspace has been processed behind a typed 'a', which is still there.
C17_Witness ==
    /\ pc = "refresh" /\ c = BACKSPACE /\ E.filename = NULL
    /\ E.numrows = 1 /\ E.row[1].chars = <<CHAR_a>> /\ E.cx = 1 /\ E.cy = 0

\* C20: once the escape byte has been read, a read() of the first or second
\* byte behind it, or of the third behind ESC [ digit, that stores nothing
\* makes editorReadKey return the bare Escape key; so does a lone escape byte.
C20_EscapeOnTimeout ==
    [][(rk.at \in {"seq0", "seq1", "seq2"} /\ rk'.seq = rk.seq) =>
            (rk'.at = "ret" /\ rk'.key = ESC /\ rk'.c = ESC)]_vars

\* ESC [ 3 has been read and the read of the third byte has timed out: Escape
\* is returned, with two bytes stored.
C20_Witness ==
    /\ rk.at = "ret" /\ rk.c = ESC /\ rk.key = ESC
    /\ rk.seq = <<LBRACKET, DIGIT_0 + 3>>

\* The rendered column of the cursor of e, as editorScroll computes it.
RxOf(e) == IF e.cy < e.numrows THEN editorRowCxToRx(e.row[e.cy + 1], e.cx) ELSE 0

\* The row number cy of e has a cursor position at rendered column r.
HasPositionAt(e, cy, r) ==
    /\ cy < e.numrows
    /\ \E x \in 0..e.row[cy + 1].size : editorRowCxToRx(e.row[cy + 1], x) = r

\* C14: ArrowUp and ArrowDown keep the rendered column of the cursor where the
\* row they move to has a position at that rendered column, and cx is not
\* beyond the length of that row.
C14_RenderedColumnKept ==
    [][(KeyProcessed({ARROW_UP, ARROW_DOWN}) /\ E'.cy # E.cy) =>
            /\ HasPositionAt(E', E'.cy, RxOf(E)) => RxOf(E') = RxOf(E)
            /\ E'.cx <= Len(RawChars(E', E'.cy))]_vars

\* C19: processing Ctrl-S leaves the rows of the buffer and the cursor as they
\* were, whether a file name is bound or not; when none is bound no file is
\* opened and no file is written.
C19_SaveNoOpUnnamed ==
    [][KeyProcessed({CTRL_S}) =>
            /\ E'.numrows = E.numrows /\ E'.row = E.row
            /\ E'.cx = E.cx /\ E'.cy = E.cy
            /\ E.filename = NULL =>
                    (disk'.opened = disk.opened /\ disk'.content = disk.content)]_vars

\* Ctrl-S has been processed on a buffer that holds a typed 'a' and has no
\* file name: no file was opened, and every file holds what it held.
C19_Witness ==
    /\ pc = "refresh" /\ c = CTRL_S /\ E.filename = NULL
    /\ E.numrows = 1 /\ E.row[1].chars = <<CHAR_a>> /\ E.cx = 1
    /\ disk.opened = {} /\ disk = DiskStart

\* Ctrl-S on a buffer bound to a file has written the rows to that file.
SaveNamedWrites ==
    (pc = "refresh" /\ c = CTRL_S /\ E.filename # NULL) =>
        /\ E.filename \in disk.opened
        /\ disk.content[E.filename] = editorRowsToString(E)

\* A text with a newline put behind its last line if that line has none.
Normalized(text) ==
    IF text = <<>> \/ text[Len(text)] = NL THEN text ELSE text \o <<NL>>

\* C12: for every text, of any number of lines including none, the string
\* editorRowsToString makes of the rows editorOpen loaded (what editorSave
\* writes back) is the text with every line byte for byte, each followed by a
\* single newline.
C12_RoundTrip ==
    [][(pc = "opened" /\ pc' = "saved") =>
            disk'.content[E.filename] = Normalized(disk.content[E.filename])]_vars

\* The round trip does reproduce every text that holds no carriage return.
RoundTripWithoutCR ==
    [][(pc = "opened" /\ pc' = "saved"
            /\ \A i \in 1..Len(disk.content[E.filename]) :
                    disk.content[E.filename][i] # CR) =>
            disk'.content[E.filename] = Normalized(disk.content[E.filename])]_vars

\* C18: the terminal attributes are saved once at startup, and whenever the
\* process has ended after raw mode was entered (Ctrl-Q, or a fatal error
\* through die) they have been restored exactly once, so that the terminal is
\* not left in raw mode.
C18_TerminalRestored ==
    (pc = "exited" /\ term.entered) =>
        /\ term.saved = 1
        /\ term.restores = 1
        /\ term.attr = "orig"

\* Where the tcsetattr of disableRawMode succeeds the lifecycle is as claimed:
\* saved once, restored once, exit status 0 after Ctrl-Q and 1 after die.
RestoredWhereRestoreSucceeds ==
    (pc = "exited" /\ term.entered /\ ~term.reexit) =>
        /\ term.saved = 1 /\ term.restores = 1 /\ term.attr = "orig"
        /\ term.status = IF c = CTRL_Q THEN 0 ELSE 1

\* C21: while editorReadKey waits for the first byte of a key, a read() that
\* returns 0, or -1 with errno EAGAIN, is retried: the call has returned no
\* key and the editor, the terminal and the process are as they were; the
\* process is ended, by die with status 1, exactly when a read() returned -1
\* with another errno.
C21_RetryOrDie ==
    [][(pc = "read" /\ rk.at = "c") =>
        /\ (rk'.nread = 0 \/ (rk'.nread = FAIL /\ rk'.errno = "EAGAIN")) =>
                /\ rk'.at = "c" /\ rk'.key = rk.key
                /\ E' = E /\ pc' = "read" /\ term' = term
        /\ pc' # "read" <=> (rk'.nread = FAIL /\ rk'.errno # "EAGAIN")
        /\ pc' # "read" => (rk'.at = "die" /\ term'.status = 1)]_vars

\* A read() has returned -1 with EAGAIN: the call still waits for the first
\* byte, no key returned, the terminal still raw.
C21_Witness ==
    /\ pc = "read" /\ rk.at = "c" /\ rk.nread = FAIL /\ rk.errno = "EAGAIN"
    /\ rk.key = 0 /\ term.attr = "raw" /\ term.restores = 0

\* The text of the status bar in ab: what stands between "\x1b[7m" and
\* "\x1b[m\r\n".
VisibleStatus == SubSeq(ab, Len(SGR_REVERSE) + 1, Len(ab) - Len(SGR_RESET) - 2)

\* C22: the text of the status line, between the reverse-video command and
\* the command that ends it, is exactly screencols characters wide for every
\* screen width, file name and number of rows: the left text cut to the
\* screen width, then spaces, then the right text flush with the right edge
\* when there is room for it.
C22_StatusBarWidth ==
    pc = "status drawn" =>
        LET left == IF Len(StatusText(E)) > E.screencols
                    THEN SubSeq(StatusText(E), 1, E.screencols) ELSE StatusText(E)
            right == RStatusText(E)
            room == E.screencols - Len(left)
        IN  /\ SubSeq(ab, 1, Len(SGR_REVERSE)) = SGR_REVERSE
            /\ SubSeq(ab, Len(ab) - Len(SGR_RESET) - 1, Len(ab)) = SGR_RESET \o <<CR, NL>>
            /\ Len(VisibleStatus) = E.screencols
            /\ VisibleStatus =
                IF room >= Len(right) /\ room > 0
                THEN left \o Spaces(room - Len(right)) \o right
                ELSE left \o Spaces(room)

\* A bar of 36 columns for the file of the long name with 10 rows, the cursor
\* on row 10: 20 characters of the name, " - 10 lines", one space, "1010".
C22_Witness ==
    /\ pc = "status drawn" /\ E.screencols = 36 /\ E.filename = LongName
    /\ E.numrows = 10 /\ E.cy = 9
    /\ VisibleStatus = [i \in 1..20 |-> CHAR_a] \o Dash \o <<49, 48>> \o LinesWord
                            \o <<SPACE, 49, 48, 49, 48>>

\* C23: editorScroll leaves rowoff as it is when the cursor row lies in the
\* window, sets rowoff = cy when the cursor is above it and rowoff =
\* cy - screenrows + 1 when the cursor is below it; likewise coloff with the
\* rendered column rx and screencols.
C23_MinimalScroll ==
    [][(pc = "refresh" /\ pc' = "read") =>
        LET rx == RxOf(E)
        IN  /\ E'.rx = rx
            /\ (E.rowoff <= E.cy /\ E.cy < E.rowoff + E.screenrows) =>
                    E'.rowoff = E.rowoff
            /\ E.cy < E.rowoff => E'.rowoff = E.cy
            /\ E.cy >= E.rowoff + E.screenrows =>
                    E'.rowoff = E.cy - E.screenrows + 1
            /\ (E.coloff <= rx /\ rx < E.coloff + E.screencols) =>
                    E'.coloff = E.coloff
            /\ rx < E.coloff => E'.coloff = rx
            /\ rx >= E.coloff + E.screencols =>
                    E'.coloff = rx - E.screencols + 1]_vars

\* A window of two rows and two columns has scrolled down and right by one
\* each: the cursor, on row 2 and rendered column 2, is on its last row and
\* last column.
C23_Witness ==
    /\ pc = "read" /\ E.screenrows = 2 /\ E.screencols = 2
    /\ E.cy = 2 /\ E.rowoff = 1 /\ E.rx = 2 /\ E.coloff = 1

\* C24: the loop of main refreshes the screen, then reads one key and applies
\* it, in turn: a refresh reads and applies no key and is followed by the key
\* read; a key read applies exactly that one key and is followed, unless the
\* key ends the process, by a refresh before another key is read.
C24_RefreshThenOneKey ==
    [][/\ pc \in {"refresh", "read"}
       /\ pc = "refresh" =>
            /\ pc' = "read"
            /\ c' = 0 /\ stdin' = stdin
            /\ E'.row = E.row /\ E'.numrows = E.numrows
            /\ E'.cx = E.cx /\ E'.cy = E.cy
       /\ pc = "read" =>
            /\ c' # 0
            /\ pc' \in {"refresh", "exited", "hung"}
            /\ pc' = "refresh" <=> c' # CTRL_Q]_vars

\* The refresh that follows the typing of 'a' into the empty buffer is done
\* (rx is the column behind the 'a') and the next key is awaited.
C24_Witness ==
    /\ pc = "read" /\ c = 0 /\ E.filename = NULL /\ E.numrows = 1
    /\ E.row[1].chars = <<CHAR_a>> /\ E.cx = 1 /\ E.rx = 1 /\ stdin = <<>>

\* The tab at chars[i] of row stands at a rendered column from which the next
\* tab stop is more than one column away.
TabExpandsWide(row, i) ==
    row.chars[i] = TAB /\ editorRowCxToRx(row, i - 1) % KILO_TAB_STOP # KILO_TAB_STOP - 1

\* C25: every rendered row has rsize >= size, and rsize = size exactly when
\* the row holds no tab that expands to more than one space.
C25_RenderedNotShorter ==
    pc # "raw" =>
        \A r \in 1..Len(E.row) :
            /\ E.row[r].rsize >= E.row[r].size
            /\ E.row[r].rsize = E.row[r].size
                    <=> ~ \E i \in 1..E.row[r].size : TabExpandsWide(E.row[r], i)

\* Seven letters and a tab: the tab, at rendered column 7, is a single space,
\* and the row is rendered as long as it is raw.
C25_Witness ==
    /\ pc = "rendered"
    /\ E.row[1].chars = [i \in 1..7 |-> CHAR_a] \o <<TAB>>
    /\ E.row[1].size = 8 /\ E.row[1].rsize = 8

\* The keys that move the cursor or do nothing.
NonEditingKeys ==
    MovementKeys \cup {HOME_KEY, END_KEY, CR, ESC, CTRL_L}

\* The raw length of row j (counted from 1) of e, 0 for a row that is not there.
RawLen(e, j) == IF j <= e.numrows THEN e.row[j].size ELSE 0

\* C26: no key event makes numrows or the raw length of a row smaller; a key
\* event adds at most one row, and only by an insert on the virtual line past
\* the last row, and makes at most one row longer, by exactly one character;
\* the arrow keys, Home, End, PageUp, PageDown, Enter, Escape and Ctrl-L
\* leave the rows as they were.
C26_BufferOnlyGrows ==
    [][(pc = "read" /\ c' # 0) =>
        LET grown == {j \in 1..E'.numrows : RawLen(E', j) # RawLen(E, j)}
        IN  /\ E'.numrows >= E.numrows /\ E'.numrows <= E.numrows + 1
            /\ Len(E'.row) = E'.numrows
            /\ E'.numrows = E.numrows + 1 => (IsInsertKey(c') /\ E.cy = E.numrows)
            /\ \A j \in 1..E'.numrows : RawLen(E', j) >= RawLen(E, j)
            /\ Cardinality(grown) <= 1
            /\ \A j \in grown : RawLen(E', j) = RawLen(E, j) + 1
            /\ c' \in NonEditingKeys => (E'.numrows = E.numrows /\ E'.row = E.row)]_vars

\* A tab has been typed on the virtual line behind the one row of a.txt: the
\* buffer has a second row, of raw length 1, and the first is as it was.
C26_Witness ==
    /\ pc = "refresh" /\ c = TAB /\ E.filename = "a.txt"
    /\ E.numrows = 2 /\ E.cy = 1 /\ E.cx = 1
    /\ E.row[1].chars = <<CHAR_a>> /\ E.row[2].chars = <<TAB>>

====
